---------------------------- MODULE Spec2Model ----------------------------
(***************************************************************************)
(* A model of the steganographic AEAD codec of escape-llm-claw:            *)
(*   - the write path   src/src/encoder.py  (Python, batch tool)           *)
(*   - the read path    src/app.py          (JavaScript served by Flask)   *)
(* Images are grids of <<r, g, b>> pixels; byte strings are sequences of   *)
(* 0..255; bit strings are sequences of 0/1.  Python lists and JavaScript  *)
(* arrays are 0-indexed, TLA+ sequences are 1-indexed: element i of the    *)
(* code is element i+1 of the model.                                       *)
(***************************************************************************)
EXTENDS Integers, Sequences, FiniteSets, TLC

VARIABLES
    pc,         \* position of the scenario
    carrier,    \* the carrier image file (INPUT_PNG), or NoFile
    data,       \* bytes handed to embed_data_in_png (LSB scenario)
    emb,        \* outcome of the last embed_data_in_png / encrypt_and_embed
    stored,     \* the encoded image file at output_png, or NoFile
    dataLen,    \* the dataLen handed to extractDataFromPng (LSB scenario)
    ext,        \* outcome of the last extractDataFromPng
    plaintext,  \* the Python str given to encrypt_and_embed (code points)
    key,        \* the AES key bytes
    wr,         \* outcome of the last encrypt_and_embed
    tamper,     \* what was done to the stored image after it was written
    rd,         \* outcome of the last extractAndDecryptPng
    files,      \* the .txt files of ARTICLE_DIR, in os.listdir order
    idx,        \* position of the batch loop in txt_files (1-based)
    mapping,    \* the lines of KEY_INFO_FILE
    calls,      \* the encrypt_and_embed calls of the batch so far
    outputs,    \* the images of OUTPUT_PNG_DIR, by item
    console,    \* what the batch printed per item
    card,       \* the dataset of #article-card: key, payload, img
    content,    \* the #content element: its text and its classes
    onload,     \* whether window.onload is decryptOne
    timerFired, \* whether the callback of setTimeout(..., 1) has run
    loadFired,  \* whether the load event of the window was dispatched
    runs,       \* how many times decryptOne was entered
    job,        \* the call of decryptOne: "none", "running" or "settled"
    registry,   \* the lines of KEY_INFO_FILE as the server reads them
    req,        \* the path of the last request
    resp,       \* the response to the last request
    bitList,    \* a bit list handed to lsbBitsToBytes
    joined      \* outcome of the bit planner

batchVars == <<files, idx, mapping, calls, outputs, console>>

codecVars == <<data, emb, stored, dataLen, ext, plaintext, key, wr, tamper, rd>>

pageVars == <<card, content, onload, timerFired, loadFired, runs, job>>

webVars == <<registry, req, resp>>

bitVars == <<bitList, joined>>

restVars == <<pageVars, webVars, bitVars>>

vars == <<pc, carrier, data, emb, stored, dataLen, ext, plaintext, key, wr, tamper, rd,
          files, idx, mapping, calls, outputs, console,
          card, content, onload, timerFired, loadFired, runs, job,
          registry, req, resp, bitList, joined>>

-----------------------------------------------------------------------------
(* Bounds of the model *)

\* longest byte string handed to embed_data_in_png in the LSB scenario
MaxDataLen == 3
\* widest and tallest carrier of the LSB scenario
MaxW == 5
MaxH == 2

-----------------------------------------------------------------------------
(* Small arithmetic helpers standing for the bit operators of the code *)

Pow2(n) == 2 ^ n

\* (b >> i) & 1
BitAt(b, i) == (b \div Pow2(i)) % 2

\* the sequence <<f[1], ..., f[n]>> of a function f on 1 .. n
AsSeq(f, n) == SubSeq(f, 1, n)

\* a wrong mask: (v & 0xFC) | bit
SetLsb_WideMask(v, bit) == (v - (v % 4)) + bit

\* (v & 0xFE) | bit
SetLsb(v, bit) == (v - (v % 2)) + bit

\* a file that does not exist; an image file holds px[x][y] = <<r, g, b>>
NoFile == [w |-> 0, h |-> 0, px |-> <<>>, exists |-> FALSE]

-----------------------------------------------------------------------------
(* encoder.py: the bit planner and the LSB embedder *)

RECURSIVE bytes_to_lsb_bits(_)
\* for b in data: for i in range(7, -1, -1): bits.append((b >> i) & 1)
bytes_to_lsb_bits(d) ==
    IF d = <<>> THEN <<>>
    ELSE LET b == Head(d)
         IN  <<BitAt(b, 7), BitAt(b, 6), BitAt(b, 5), BitAt(b, 4),
               BitAt(b, 3), BitAt(b, 2), BitAt(b, 1), BitAt(b, 0)>>
             \o bytes_to_lsb_bits(Tail(d))

\* the body of the inner loop for one pixel <<r, g, b>> (encoder.py 102-122):
\* returns the pixel written back and the new bit_idx
EmbedPixel(p, bits, bit_idx) ==
    LET bit_len == Len(bits)
        r  == SetLsb(p[1], bits[bit_idx + 1])
        i1 == bit_idx + 1
    IN  IF i1 >= bit_len THEN [p |-> <<r, p[2], p[3]>>, bit_idx |-> i1]
        ELSE LET g  == SetLsb(p[2], bits[i1 + 1])
                 i2 == i1 + 1
             IN  IF i2 >= bit_len THEN [p |-> <<r, g, p[3]>>, bit_idx |-> i2]
                 ELSE LET b == SetLsb(p[3], bits[i2 + 1])
                      IN  [p |-> <<r, g, b>>, bit_idx |-> i2 + 1]

RECURSIVE EmbedRow(_, _, _, _, _, _)
\* for x in range(w): the inner loop of row y, from column x on; returns the
\* pixels and bit_idx when the loop ends or breaks
EmbedRow(px, w, bits, y, x, bit_idx) ==
    IF x >= w \/ bit_idx >= Len(bits)
    THEN [px |-> px, bit_idx |-> bit_idx]
    ELSE LET s == EmbedPixel(px[x][y], bits, bit_idx)
         IN  EmbedRow([px EXCEPT ![x][y] = s.p], w, bits, y, x + 1, s.bit_idx)

RECURSIVE EmbedLoop(_, _, _, _, _, _)
\* for y in range(h): the inner loop, then `if bit_idx >= bit_len: break`
EmbedLoop(px, w, h, bits, y, bit_idx) ==
    IF y >= h THEN px
    ELSE LET r == EmbedRow(px, w, bits, y, 0, bit_idx)
         IN  IF r.bit_idx >= Len(bits) THEN r.px
             ELSE EmbedLoop(r.px, w, h, bits, y + 1, r.bit_idx)

\* the capacity test written with >= instead of >
embed_data_in_png_OffByOne(input_png, d, saveOk) ==
    IF ~input_png.exists
    THEN [err |-> "FileNotFoundError", out |-> NoFile]
    ELSE LET w    == input_png.w
             h    == input_png.h
             bits == bytes_to_lsb_bits(d)
         IN  IF Len(bits) >= w * h * 3
             THEN [err |-> "ValueError", out |-> NoFile]
             ELSE IF ~saveOk
                  THEN [err |-> "OSError", out |-> NoFile]
                  ELSE [err |-> "none",
                        out |-> [w |-> w, h |-> h, exists |-> TRUE,
                                 px |-> EmbedLoop(input_png.px, w, h, bits, 0, 0)]]

\* embed_data_in_png(input_png, output_png, data); saveOk is whether
\* img.save succeeds.  The outcome names the error raised ("none" when the
\* call returns) and the file left at output_png by this call.
embed_data_in_png(input_png, d, saveOk) ==
    IF ~input_png.exists
    THEN [err |-> "FileNotFoundError", out |-> NoFile]
    ELSE LET w        == input_png.w
             h        == input_png.h
             bits     == bytes_to_lsb_bits(d)
             bit_len  == Len(bits)
             max_bits == w * h * 3
         IN  IF bit_len > max_bits
             THEN [err |-> "ValueError", out |-> NoFile]
             ELSE IF ~saveOk
                  THEN [err |-> "OSError", out |-> NoFile]
                  ELSE [err |-> "none",
                        out |-> [w |-> w, h |-> h, exists |-> TRUE,
                                 px |-> EmbedLoop(input_png.px, w, h, bits, 0, 0)]]

-----------------------------------------------------------------------------
(* app.py: the page's bit planner and LSB extractor *)

RECURSIVE BuildByte_LsbFirst(_, _, _, _)
\* the inner loop putting the first bit lowest: byte |= bits[i*8 + j] << j
BuildByte_LsbFirst(bits, i, j, byte) ==
    IF j >= 8 THEN byte
    ELSE IF i + j >= Len(bits) THEN byte
         ELSE BuildByte_LsbFirst(bits, i, j + 1, byte + (bits[(i * 8) + j + 1] * Pow2(j)))

RECURSIVE BuildByte(_, _, _, _)
\* the inner loop of lsbBitsToBytes for byte i, from bit j on
BuildByte(bits, i, j, byte) ==
    IF j >= 8 THEN byte
    ELSE IF i + j >= Len(bits) THEN byte
         ELSE BuildByte(bits, i, j + 1, (byte * 2) + bits[(i * 8) + j + 1])

\* lsbBitsToBytes(bits): a Uint8Array of floor(bits.length / 8) bytes
lsbBitsToBytes(bits) ==
    AsSeq([i \in 1 .. (Len(bits) \div 8) |-> BuildByte(bits, i - 1, 0, 0) % 256],
          Len(bits) \div 8)

\* ctx.drawImage + ctx.getImageData: the flat RGBA array of the canvas,
\* element (y*w + x)*4 + c for channel c of pixel (x, y), alpha opaque
getImageData(img) ==
    [o \in 0 .. ((img.w * img.h * 4) - 1) |->
        LET i == o \div 4
            c == o % 4
        IN  IF c = 3 THEN 255
            ELSE img.px[i % img.w][i \div img.w][c + 1]]

RECURSIVE ExtractRow(_, _, _, _, _, _)
\* for (x = 0; x < w && bitIdx < needBits; x++): the inner loop of row y,
\* from column x on; offs lists the offsets of the array elements pushed in
\* this row so far, bitIdx counts the bits pushed so far in all
ExtractRow(w, needBits, y, x, bitIdx, offs) ==
    IF ~(x < w /\ bitIdx < needBits) THEN offs
    ELSE LET off == ((y * w) + x) * 4
         IN  IF bitIdx + 1 >= needBits THEN Append(offs, off)
             ELSE IF bitIdx + 2 >= needBits THEN offs \o <<off, off + 1>>
             ELSE IF bitIdx + 3 >= needBits THEN offs \o <<off, off + 1, off + 2>>
             ELSE ExtractRow(w, needBits, y, x + 1, bitIdx + 3,
                             offs \o <<off, off + 1, off + 2>>)

RECURSIVE ExtractLoop(_, _, _, _, _)
\* for (y = 0; y < h && bitIdx < needBits; y++); offs lists the offsets of
\* the array elements pushed so far, so bitIdx = Len(offs)
ExtractLoop(w, h, needBits, y, offs) ==
    IF ~(y < h /\ Len(offs) < needBits) THEN offs
    ELSE ExtractLoop(w, h, needBits, y + 1,
                     offs \o ExtractRow(w, needBits, y, 0, Len(offs), <<>>))

\* the reader walking columns before rows
ExtractOffsets_ColumnMajor(img, n) ==
    LET t == ExtractLoop(img.h, img.w, n * 8, 0, <<>>)
    IN  [k \in 1 .. Len(t) |->
            LET i == t[k] \div 4
            IN  ((((i % img.h) * img.w) + (i \div img.h)) * 4) + (t[k] % 4)]

\* the offsets extractDataFromPng reads its bits from, in order
ExtractOffsets(img, n) == ExtractLoop(img.w, img.h, n * 8, 0, <<>>)

\* the bits pushed: pixels[off] & 1 for each offset read, as a list
ReadBits(pixels, offs) == AsSeq([k \in 1 .. Len(offs) |-> pixels[offs[k]] % 2], Len(offs))

\* an extractor that does not stop at needBits but reads the whole image
extractDataFromPng_ReadsAll(img, n) ==
    IF ~img.exists
    THEN [err |-> "Image load failed", bytes |-> <<>>]
    ELSE LET maxBits == img.w * img.h * 3
         IN  IF n * 8 > maxBits
             THEN [err |-> "Data too long", bytes |-> <<>>]
             ELSE LET pixels == getImageData(img)
                      offs   == ExtractLoop(img.w, img.h, maxBits, 0, <<>>)
                  IN  [err |-> "none", bytes |-> lsbBitsToBytes(ReadBits(pixels, offs))]

\* extractDataFromPng(imgB64, dataLen): the bytes returned, or the error
extractDataFromPng(img, n) ==
    IF ~img.exists
    THEN [err |-> "Image load failed", bytes |-> <<>>]
    ELSE LET needBits == n * 8
             maxBits  == img.w * img.h * 3
         IN  IF needBits > maxBits
             THEN [err |-> "Data too long", bytes |-> <<>>]
             ELSE LET pixels == getImageData(img)
                      offs   == ExtractOffsets(img, n)
                  IN  [err |-> "none", bytes |-> lsbBitsToBytes(ReadBits(pixels, offs))]

-----------------------------------------------------------------------------
(* Text: Python str.encode("utf-8") and the page's TextDecoder('utf-8').    *)
(* A text is a sequence of Unicode code points.                             *)

RECURSIVE Utf8Encode(_)
\* plaintext.encode("utf-8"); <<-1>> stands for UnicodeEncodeError, raised
\* for a lone surrogate
Utf8Encode(t) ==
    IF t = <<>> THEN <<>>
    ELSE LET cp   == Head(t)
             rest == Utf8Encode(Tail(t))
         IN  IF rest = <<-1>> \/ (cp >= 55296 /\ cp <= 57343) THEN <<-1>>
             ELSE IF cp < 128 THEN <<cp>> \o rest
             ELSE IF cp < 2048
                  THEN <<192 + (cp \div 64), 128 + (cp % 64)>> \o rest
             ELSE IF cp < 65536
                  THEN <<224 + (cp \div 4096), 128 + ((cp \div 64) % 64),
                         128 + (cp % 64)>> \o rest
             ELSE <<240 + (cp \div 262144), 128 + ((cp \div 4096) % 64),
                    128 + ((cp \div 64) % 64), 128 + (cp % 64)>> \o rest

RECURSIVE Utf8Decode(_, _, _, _, _, _, _)
\* the UTF-8 decoder of TextDecoder (not fatal): byte i of b, with `needed`
\* continuation bytes outstanding for code point cp, the next continuation
\* byte bounded by lo..hi; a malformed sequence yields U+FFFD (65533)
Utf8Decode(b, i, needed, cp, lo, hi, out) ==
    IF i > Len(b)
    THEN IF needed > 0 THEN Append(out, 65533) ELSE out
    ELSE LET c == b[i]
         IN  IF needed = 0
             THEN IF c < 128
                  THEN Utf8Decode(b, i + 1, 0, 0, 128, 191, Append(out, c))
                  ELSE IF c >= 194 /\ c <= 223
                  THEN Utf8Decode(b, i + 1, 1, c % 32, 128, 191, out)
                  ELSE IF c >= 224 /\ c <= 239
                  THEN Utf8Decode(b, i + 1, 2, c % 16,
                                  IF c = 224 THEN 160 ELSE 128,
                                  IF c = 237 THEN 159 ELSE 191, out)
                  ELSE IF c >= 240 /\ c <= 244
                  THEN Utf8Decode(b, i + 1, 3, c % 8,
                                  IF c = 240 THEN 144 ELSE 128,
                                  IF c = 244 THEN 143 ELSE 191, out)
                  ELSE Utf8Decode(b, i + 1, 0, 0, 128, 191, Append(out, 65533))
             ELSE IF c < lo \/ c > hi
                  THEN Utf8Decode(b, i, 0, 0, 128, 191, Append(out, 65533))
                  ELSE LET cp2 == (cp * 64) + (c % 64)
                       IN  IF needed = 1
                           THEN Utf8Decode(b, i + 1, 0, 0, 128, 191, Append(out, cp2))
                           ELSE Utf8Decode(b, i + 1, needed - 1, cp2, 128, 191, out)

\* a decoder built with ignoreBOM: true, which keeps a leading U+FEFF
TextDecoderDecode_KeepBOM(b) == Utf8Decode(b, 1, 0, 0, 128, 191, <<>>)

\* new TextDecoder('utf-8').decode(buf): ignoreBOM defaults to false, so a
\* leading byte order mark EF BB BF is consumed and not part of the string
TextDecoderDecode(b) ==
    LET t == Utf8Decode(b, 1, 0, 0, 128, 191, <<>>)
    IN  IF Len(b) >= 3 /\ b[1] = 239 /\ b[2] = 187 /\ b[3] = 191
        THEN Tail(t)
        ELSE t

-----------------------------------------------------------------------------
(* The AEAD engine.  AES-GCM itself is a library on both sides; it is       *)
(* modelled by a keyed, nonce-dependent byte substitution followed by a     *)
(* 16-byte tag over key, nonce and ciphertext.  Every single-bit change of  *)
(* nonce, ciphertext or tag changes the tag comparison.                     *)

\* the nonce length of os.urandom(12)
NonceLen == 12
\* the length of the tag AESGCM.encrypt appends
TagLen == 16

RECURSIVE SumBytes(_)
SumBytes(b) == IF b = <<>> THEN 0 ELSE Head(b) + SumBytes(Tail(b))

KeyStream(k, n, i) == (k[(i % Len(k)) + 1] + n[(i % Len(n)) + 1] + (31 * i) + 7) % 256

GcmTag(k, n, body) ==
    LET sum == SumBytes(body) + SumBytes(n) + (3 * Len(body))
    IN  AsSeq([j \in 1 .. TagLen |->
                  (sum + k[((j - 1) % Len(k)) + 1] + (13 * j)) % 256], TagLen)

\* AESGCM(key).encrypt(nonce, pt_bytes, None): ciphertext with the tag appended
GcmEncrypt(k, n, pt) ==
    LET body == AsSeq([i \in 1 .. Len(pt) |-> (pt[i] + KeyStream(k, n, i - 1)) % 256],
                      Len(pt))
    IN  body \o GcmTag(k, n, body)

ValidKeyLen(k) == Len(k) \in {16, 24, 32}

\* aes_gcm_encrypt(plaintext, key) with the nonce os.urandom(12) returned
aes_gcm_encrypt(t, k, nonce) ==
    IF ~ValidKeyLen(k)
    THEN [err |-> "ValueError", nonce |-> <<>>, ct |-> <<>>]
    ELSE LET pt_bytes == Utf8Encode(t)
         IN  IF pt_bytes = <<-1>>
             THEN [err |-> "UnicodeEncodeError", nonce |-> <<>>, ct |-> <<>>]
             ELSE [err |-> "none", nonce |-> nonce,
                   ct |-> GcmEncrypt(k, nonce, pt_bytes)]

\* crypto.subtle.decrypt without the comparison of the tag
aesGcmDecrypt_NoTagCheck(nonce, ct, k) ==
    IF ~ValidKeyLen(k) THEN [err |-> "DataError", text |-> <<>>]
    ELSE IF Len(nonce) = 0 \/ Len(ct) < TagLen
         THEN [err |-> "OperationError", text |-> <<>>]
         ELSE LET body == SubSeq(ct, 1, Len(ct) - TagLen)
                  pt   == AsSeq([i \in 1 .. Len(body) |->
                              (body[i] + 256 - KeyStream(k, nonce, i - 1)) % 256], Len(body))
              IN  [err |-> "none", text |-> TextDecoderDecode(pt)]

\* aesGcmDecrypt(nonce, ct, key): importKey, decrypt, TextDecoder.decode
aesGcmDecrypt(nonce, ct, k) ==
    IF ~ValidKeyLen(k) THEN [err |-> "DataError", text |-> <<>>]
    ELSE IF Len(nonce) = 0 \/ Len(ct) < TagLen
         THEN [err |-> "OperationError", text |-> <<>>]
         ELSE LET body == SubSeq(ct, 1, Len(ct) - TagLen)
                  tag  == SubSeq(ct, Len(ct) - TagLen + 1, Len(ct))
                  pt   == AsSeq([i \in 1 .. Len(body) |->
                              (body[i] + 256 - KeyStream(k, nonce, i - 1)) % 256], Len(body))
              IN  IF tag # GcmTag(k, nonce, body)
                  THEN [err |-> "OperationError", text |-> <<>>]
                  ELSE [err |-> "none", text |-> TextDecoderDecode(pt)]

-----------------------------------------------------------------------------
(* The payload framer *)

\* struct.pack(">I", n)
PackBE32(n) ==
    <<(n \div 16777216) % 256, (n \div 65536) % 256, (n \div 256) % 256, n % 256>>

\* struct.pack("<I", n)
PackLE32(n) ==
    <<n % 256, (n \div 256) % 256, (n \div 65536) % 256, (n \div 16777216) % 256>>

\* DataView.getUint32(0, false) over 4 bytes.  The model checker's integers are
\* 32-bit signed: a value of 2^31 or more is represented by 2^31 - 17, which
\* like it exceeds every array length and can still have 16 added to it
GetUint32BE(b) ==
    IF b[1] >= 128 THEN 2147483631
    ELSE (b[1] * 16777216) + (b[2] * 65536) + (b[3] * 256) + b[4]

\* Uint8Array.slice(from, to): both ends clamped to the array
Slice(a, from, to) ==
    LET f == IF from > Len(a) THEN Len(a) ELSE from
        t == IF to > Len(a) THEN Len(a) ELSE to
    IN  IF t <= f THEN <<>> ELSE SubSeq(a, f + 1, t)

\* the payload with the length field packed little-endian
MakePayload_LittleEndian(nonce, ct) == nonce \o PackLE32(Len(ct)) \o ct

\* payload = nonce + struct.pack(">I", ct_len) + ct
MakePayload(nonce, ct) == nonce \o PackBE32(Len(ct)) \o ct

\* encrypt_and_embed(plaintext, key, input_png, output_png)
encrypt_and_embed(t, k, input_png, nonce, saveOk) ==
    LET e == aes_gcm_encrypt(t, k, nonce)
    IN  IF e.err # "none"
        THEN [err |-> e.err, out |-> NoFile, ret |-> 0,
              payload |-> <<>>, nonce |-> <<>>, ct |-> <<>>]
        ELSE LET payload == MakePayload(e.nonce, e.ct)
                 m       == embed_data_in_png(input_png, payload, saveOk)
             IN  [err |-> m.err, out |-> m.out,
                  ret |-> IF m.err = "none" THEN Len(payload) ELSE 0,
                  payload |-> payload, nonce |-> e.nonce, ct |-> e.ct]

\* extractAndDecryptPng(key, imgB64, totalPayloadLen); the outcome also
\* records the payload extracted and the ct handed to aesGcmDecrypt
extractAndDecryptPng(k, img, totalPayloadLen) ==
    LET x == extractDataFromPng(img, totalPayloadLen)
    IN  IF x.err # "none"
        THEN [err |-> x.err, text |-> <<>>, payload |-> <<>>,
              ctLen |-> 0, ct |-> <<>>, decrypted |-> FALSE]
        ELSE LET payload == x.bytes
                 nonce   == Slice(payload, 0, 12)
             IN  IF 12 + 4 > Len(payload)
                 THEN [err |-> "RangeError", text |-> <<>>, payload |-> payload,
                       ctLen |-> 0, ct |-> <<>>, decrypted |-> FALSE]
                 ELSE LET ctLen == GetUint32BE(SubSeq(payload, 13, 16))
                          ct    == Slice(payload, 16, 16 + ctLen)
                          d     == aesGcmDecrypt(nonce, ct, k)
                      IN  [err |-> d.err, text |-> d.text, payload |-> payload,
                           ctLen |-> ctLen, ct |-> ct, decrypted |-> TRUE]

-----------------------------------------------------------------------------
(* Carriers *)

\* channel c of the pixel with raster index i under fill pattern pat
PatChan(pat, i, c) ==
    CASE pat = "dark"  -> 0
      [] pat = "light" -> 255
      [] OTHER         -> ((((i * 3) + c) * 37) + 11) % 256

MkImage(w, h, pat) ==
    [w |-> w, h |-> h, exists |-> TRUE,
     px |-> [x \in 0 .. (w - 1) |-> [y \in 0 .. (h - 1) |->
                LET i == (y * w) + x
                IN  <<PatChan(pat, i, 0), PatChan(pat, i, 1), PatChan(pat, i, 2)>>]]]

Patterns == {"dark", "light", "mixed"}

-----------------------------------------------------------------------------
(* The LSB scenario: embed_data_in_png and extractDataFromPng applied to    *)
(* arbitrary small carriers and byte strings                                *)

\* 178 = 0xB2 = 10110010 reads differently MSB first and LSB first
SampleBytes == {0, 178, 255}

RECURSIVE SeqsUpTo(_, _)
SeqsUpTo(S, n) ==
    IF n = 0 THEN {<<>>}
    ELSE LET shorter == SeqsUpTo(S, n - 1)
         IN  shorter \cup {Append(s, e) : s \in {t \in shorter : Len(t) = n - 1}, e \in S}

LsbCarriers ==
    {MkImage(w, h, pat) : w \in 1 .. MaxW, h \in 1 .. MaxH, pat \in Patterns}

NoEmb == [err |-> "pending", out |-> NoFile]
NoExt == [err |-> "pending", bytes |-> <<>>]
NoWr == [err |-> "pending", out |-> NoFile, ret |-> 0,
         payload |-> <<>>, nonce |-> <<>>, ct |-> <<>>]
NoRd == [err |-> "pending", text |-> <<>>, payload |-> <<>>,
         ctLen |-> 0, ct |-> <<>>, decrypted |-> FALSE]
NoTamper == [kind |-> "none", at |-> 0]

\* the batch tool is not running
NoBatch ==
    /\ files = <<>>
    /\ idx = 0
    /\ mapping = <<>>
    /\ calls = <<>>
    /\ outputs = <<>>
    /\ console = <<>>

NoCard == [key |-> <<>>, payload |-> 0, img |-> NoFile]

\* the #content element as the server renders it
Loading == [kind |-> "loading", text |-> <<>>, detail |-> <<>>,
            loading |-> TRUE, color |-> "default"]

NoPage ==
    /\ card = NoCard
    /\ content = Loading
    /\ onload = FALSE
    /\ timerFired = FALSE
    /\ loadFired = FALSE
    /\ runs = 0
    /\ job = "none"

NoResp == [status |-> 0, page |-> "none"]

NoWeb ==
    /\ registry = <<>>
    /\ req = <<>>
    /\ resp = NoResp

NoBits ==
    /\ bitList = <<>>
    /\ joined = <<>>

InitLsb ==
    /\ pc = "lsb_start"
    /\ carrier \in LsbCarriers
    /\ data \in SeqsUpTo(SampleBytes, MaxDataLen)
    /\ emb = NoEmb
    /\ stored = NoFile
    /\ dataLen = 0
    /\ ext = NoExt
    /\ plaintext = <<>>
    /\ key = <<>>
    /\ wr = NoWr
    /\ tamper = NoTamper
    /\ rd = NoRd
    /\ NoBatch
    /\ NoPage
    /\ NoWeb
    /\ NoBits

\* embed_data_in_png(carrier, output_png, data)
LsbEmbed ==
    /\ pc = "lsb_start"
    /\ emb' = embed_data_in_png(carrier, data, TRUE)
    /\ stored' = IF emb'.err = "none" THEN emb'.out ELSE stored
    /\ pc' = "lsb_embedded"
    /\ UNCHANGED <<carrier, data, dataLen, ext, plaintext, key, wr, tamper, rd>>
    /\ UNCHANGED batchVars
    /\ UNCHANGED restVars

\* extractDataFromPng(stored image, n)
LsbExtract ==
    /\ pc = "lsb_embedded"
    /\ \E n \in 0 .. (MaxDataLen + 1) :
          /\ dataLen' = n
          /\ ext' = extractDataFromPng(stored, n)
    /\ pc' = "lsb_extracted"
    /\ UNCHANGED <<carrier, data, emb, stored, plaintext, key, wr, tamper, rd>>
    /\ UNCHANGED batchVars
    /\ UNCHANGED restVars

NextLsb == LsbEmbed \/ LsbExtract

SpecLsb == InitLsb /\ [][NextLsb]_vars

-----------------------------------------------------------------------------
(* The codec scenario: one item written by encrypt_and_embed, the stored    *)
(* image possibly altered by a third party, then read by the page with the  *)
(* key and the payload length of the item's mapping record                  *)

\* longest plaintext, in code points
MaxPlainLen == 2

\* 'A' (one byte of UTF-8) and U+FEFF (three bytes, the byte order mark)
Chars == {65, 65279}

Plaintexts == SeqsUpTo(Chars, MaxPlainLen)

Keys == {[i \in 1 .. 16 |-> ((i * 17) + 3) % 256],
         [i \in 1 .. 32 |-> ((i * 29) + 5) % 256]}

Nonces == {[i \in 1 .. NonceLen |-> 0],
           [i \in 1 .. NonceLen |-> ((i * 41) + 9) % 256]}

\* 8x11 holds 33 bytes (the envelope of a one-byte plaintext exactly), 12x10
\* holds 45 bytes; the carrier may be missing
CodecCarriers == {MkImage(8, 11, "mixed"), MkImage(12, 10, "light"), NoFile}

\* img with the least-significant bit of channel k inverted
FlipChan(img, k) ==
    LET x == (k \div 3) % img.w
        y == (k \div 3) \div img.w
        c == (k % 3) + 1
        v == img.px[x][y][c]
    IN  [img EXCEPT !.px[x][y][c] = (v + 1) - (2 * (v % 2))]

\* img with every channel from traversal index `from` on overwritten
Garble(img, from, g) ==
    [img EXCEPT !.px =
        [x \in 0 .. (img.w - 1) |-> [y \in 0 .. (img.h - 1) |->
            [c \in 1 .. 3 |->
                LET k == (((y * img.w) + x) * 3) + (c - 1)
                    v == img.px[x][y][c]
                IN  IF k < from THEN v
                    ELSE CASE g = "zero"   -> 0
                           [] g = "one"    -> 255
                           [] g = "invert" -> 255 - v
                           [] OTHER        -> ((k * 91) + 5) % 256]]]]

Garbage == {"zero", "one", "invert", "noise"}

\* the bits of an n-byte envelope a flip is tried on: every bit of the length
\* field, and of byte j the bit j % 8, so that every byte and every bit
\* position of a byte is hit
FlipPositions(n) ==
    {(8 * j) + (j % 8) : j \in 0 .. (n - 1)}
        \cup ((8 * NonceLen) .. ((8 * NonceLen) + 31))

Init ==
    /\ pc = "start"
    /\ carrier \in CodecCarriers
    /\ plaintext \in Plaintexts
    /\ key \in Keys
    /\ data = <<>>
    /\ emb = NoEmb
    /\ stored = NoFile
    /\ dataLen = 0
    /\ ext = NoExt
    /\ wr = NoWr
    /\ tamper = NoTamper
    /\ rd = NoRd
    /\ NoBatch
    /\ NoPage
    /\ NoWeb
    /\ NoBits

\* encrypt_and_embed(plaintext, key, INPUT_PNG, output_png), nonce drawn by
\* os.urandom
Write ==
    /\ pc = "start"
    /\ \E nonce \in Nonces :
          wr' = encrypt_and_embed(plaintext, key, carrier, nonce, TRUE)
    /\ stored' = IF wr'.err = "none" THEN wr'.out ELSE stored
    /\ pc' = "written"
    /\ UNCHANGED <<carrier, data, emb, dataLen, ext, plaintext, key, tamper, rd>>
    /\ UNCHANGED batchVars
    /\ UNCHANGED restVars

\* a third party inverts one channel LSB that holds a bit of the envelope
FlipLsb ==
    /\ pc = "written"
    /\ wr.err = "none"
    /\ \E k \in FlipPositions(wr.ret) :
          /\ stored' = FlipChan(stored, k)
          /\ tamper' = [kind |-> "flip", at |-> k]
    /\ pc' = "tampered"
    /\ UNCHANGED <<carrier, data, emb, dataLen, ext, plaintext, key, wr, rd>>
    /\ UNCHANGED batchVars
    /\ UNCHANGED restVars

\* a third party overwrites every channel after the envelope
GarbleTail ==
    /\ pc = "written"
    /\ wr.err = "none"
    /\ \E g \in Garbage :
          /\ stored' = Garble(stored, 8 * wr.ret, g)
          /\ tamper' = [kind |-> g, at |-> 8 * wr.ret]
    /\ pc' = "tampered"
    /\ UNCHANGED <<carrier, data, emb, dataLen, ext, plaintext, key, wr, rd>>
    /\ UNCHANGED batchVars
    /\ UNCHANGED restVars

\* the page: extractAndDecryptPng(key, data-img, data-payload)
Read ==
    /\ pc \in {"written", "tampered"}
    /\ wr.err = "none"
    /\ rd' = extractAndDecryptPng(key, stored, wr.ret)
    /\ pc' = "read"
    /\ UNCHANGED <<carrier, data, emb, stored, dataLen, ext, plaintext, key, wr, tamper>>
    /\ UNCHANGED batchVars
    /\ UNCHANGED restVars

Next == Write \/ FlipLsb \/ GarbleTail \/ Read

Spec == Init /\ [][Next]_vars

-----------------------------------------------------------------------------
(* The batch scenario: the __main__ block of encoder.py                     *)

\* most .txt files in ARTICLE_DIR
NumFiles == 2

\* AES_BIT_LENGTH
AES_BIT_LENGTH == 128

\* Python's str.strip() removes these from both ends (among others)
IsSpace(cp) == cp \in {9, 10, 11, 12, 13, 32}

RECURSIVE LStrip(_)
LStrip(t) == IF t # <<>> /\ IsSpace(Head(t)) THEN LStrip(Tail(t)) ELSE t

RECURSIVE RStrip(_)
RStrip(t) ==
    IF t # <<>> /\ IsSpace(t[Len(t)]) THEN RStrip(SubSeq(t, 1, Len(t) - 1)) ELSE t

\* af.read().strip()
Strip(t) == RStrip(LStrip(t))

RECURSIVE B64Encode(_)
\* base64.b64encode(b), as the indices of its characters in the base64
\* alphabet; 64 stands for the padding character '='
B64Encode(b) ==
    IF Len(b) = 0 THEN <<>>
    ELSE IF Len(b) = 1
         THEN <<b[1] \div 4, (b[1] % 4) * 16, 64, 64>>
    ELSE IF Len(b) = 2
         THEN <<b[1] \div 4, ((b[1] % 4) * 16) + (b[2] \div 16), (b[2] % 16) * 4, 64>>
    ELSE <<b[1] \div 4, ((b[1] % 4) * 16) + (b[2] \div 16),
           ((b[2] % 16) * 4) + (b[3] \div 64), b[3] % 64>>
         \o B64Encode(SubSeq(b, 4, Len(b)))

RECURSIVE FormatInt(_)
\* f"{payload_len}": the decimal digits of a non-negative int, as characters
FormatInt(n) ==
    IF n < 10 THEN <<48 + n>> ELSE Append(FormatInt(n \div 10), 48 + (n % 10))

RECURSIVE ParseInt(_)
\* int(payload_len) of read_article_mapping: the value of a decimal numeral
ParseInt(d) ==
    IF d = <<>> THEN 0 ELSE (ParseInt(SubSeq(d, 1, Len(d) - 1)) * 10) + (d[Len(d)] - 48)

\* the key of every encryption, generated before the loop
GenKey_Hoisted(n) == [i \in 1 .. (AES_BIT_LENGTH \div 8) |-> ((i * 17) + 3) % 256]

\* AESGCM.generate_key(bit_length=AES_BIT_LENGTH), the n-th draw of the run:
\* os.urandom gives every draw a value of its own
GenKey(n) == [i \in 1 .. (AES_BIT_LENGTH \div 8) |-> ((i * 17) + 3 + (101 * n)) % 256]

Unreadable == [readable |-> FALSE, text |-> <<>>]

\* an article is unreadable (not UTF-8, or open fails) or holds a text:
\* "", " ", "A", " A\n", U+00E9, U+00E9 U+00E9
Articles ==
    {Unreadable} \cup
    {[readable |-> TRUE, text |-> t] :
        t \in {<<>>, <<32>>, <<65>>, <<32, 65, 10>>, <<233>>, <<233, 233>>}}

Listings == UNION {[1 .. n -> Articles] : n \in 0 .. NumFiles}

\* the carrier holds 33 bytes or 45 bytes, or is missing
BatchCarriers == {MkImage(8, 11, "mixed"), MkImage(12, 10, "light"), NoFile}

\* txt_file and os.path.splitext(txt_file)[0] + ".png" of item i
TxtFile(i) == [stem |-> i, ext |-> ".txt"]
OutputPng(i) == [stem |-> TxtFile(i).stem, ext |-> ".png"]

Header == <<"ARTICLE_NAME", "IMAGE_PATH", "AES_KEY_B64", "PAYLOAD_LEN">>

InitBatch ==
    /\ pc = "batch_start"
    /\ carrier \in BatchCarriers
    /\ files \in Listings
    /\ idx = 0
    /\ mapping = <<>>
    /\ calls = <<>>
    /\ outputs = [i \in 1 .. Len(files) |-> NoFile]
    /\ console = <<>>
    /\ data = <<>>
    /\ emb = NoEmb
    /\ stored = NoFile
    /\ dataLen = 0
    /\ ext = NoExt
    /\ plaintext = <<>>
    /\ key = <<>>
    /\ wr = NoWr
    /\ tamper = NoTamper
    /\ rd = NoRd
    /\ NoPage
    /\ NoWeb
    /\ NoBits

\* if not txt_files: exit(0)
BatchNoFiles ==
    /\ pc = "batch_start"
    /\ files = <<>>
    /\ pc' = "batch_exit"
    /\ UNCHANGED <<carrier, files, idx, mapping, calls, outputs, console>>
    /\ UNCHANGED codecVars
    /\ UNCHANGED restVars

\* open(KEY_INFO_FILE, "w") and the header line
BatchOpen ==
    /\ pc = "batch_start"
    /\ files # <<>>
    /\ mapping' = <<Header>>
    /\ idx' = 1
    /\ pc' = "batch_loop"
    /\ UNCHANGED <<carrier, files, calls, outputs, console>>
    /\ UNCHANGED codecVars
    /\ UNCHANGED restVars

\* open(article_path) or af.read() raises, outside the try: the exception
\* leaves the loop and the with block and ends the process
BatchReadFails ==
    /\ pc = "batch_loop"
    /\ idx <= Len(files)
    /\ ~files[idx].readable
    /\ pc' = "batch_aborted"
    /\ UNCHANGED <<carrier, files, idx, mapping, calls, outputs, console>>
    /\ UNCHANGED codecVars
    /\ UNCHANGED restVars

\* if not secret_text: print("Skipping empty file"); continue
BatchSkipEmpty ==
    /\ pc = "batch_loop"
    /\ idx <= Len(files)
    /\ files[idx].readable
    /\ Strip(files[idx].text) = <<>>
    /\ console' = Append(console, [kind |-> "Skipping", item |-> idx])
    /\ idx' = idx + 1
    /\ UNCHANGED <<pc, carrier, files, mapping, calls, outputs>>
    /\ UNCHANGED codecVars
    /\ UNCHANGED restVars

\* generate_key, encrypt_and_embed inside the try, then the mapping line
\* and "Processed", or "Failed" from the except clause
BatchEncode ==
    /\ pc = "batch_loop"
    /\ idx <= Len(files)
    /\ files[idx].readable
    /\ Strip(files[idx].text) # <<>>
    /\ \E nonce \in Nonces, saveOk \in BOOLEAN :
          LET secret_text == Strip(files[idx].text)
              aes_key     == GenKey(Len(calls))
              aes_key_b64 == B64Encode(aes_key)
          IN  \E r \in {encrypt_and_embed(secret_text, aes_key, carrier, nonce, saveOk)} :
              /\ calls' = Append(calls, [item |-> idx, text |-> secret_text,
                                         key |-> aes_key, nonce |-> r.nonce,
                                         ct |-> r.ct, payload |-> r.payload,
                                         ret |-> r.ret, err |-> r.err])
              /\ IF r.err = "none"
                 THEN /\ mapping' = Append(mapping, <<TxtFile(idx), OutputPng(idx),
                                                      aes_key_b64, FormatInt(r.ret)>>)
                      /\ outputs' = [outputs EXCEPT ![idx] = r.out]
                      /\ console' = Append(console, [kind |-> "Processed", item |-> idx])
                 ELSE /\ console' = Append(console, [kind |-> "Failed", item |-> idx])
                      /\ UNCHANGED <<mapping, outputs>>
    /\ idx' = idx + 1
    /\ UNCHANGED <<pc, carrier, files>>
    /\ UNCHANGED codecVars
    /\ UNCHANGED restVars

\* the loop ends, the mapping file is closed, "Batch processing complete!"
BatchDone ==
    /\ pc = "batch_loop"
    /\ idx > Len(files)
    /\ pc' = "batch_done"
    /\ UNCHANGED <<carrier, files, idx, mapping, calls, outputs, console>>
    /\ UNCHANGED codecVars
    /\ UNCHANGED restVars

NextBatch ==
    \/ BatchNoFiles
    \/ BatchOpen
    \/ BatchReadFails
    \/ BatchSkipEmpty
    \/ BatchEncode
    \/ BatchDone

SpecBatch == InitBatch /\ [][NextBatch]_vars

-----------------------------------------------------------------------------
(* The article page: the script of article_page in app.py                   *)

RECURSIVE B64Decode(_)
\* atob(b64) as bytes, from the indices of the characters in the base64
\* alphabet (64 is '='); <<-1>> stands for InvalidCharacterError
B64Decode(c) ==
    IF Len(c) = 0 THEN <<>>
    ELSE IF Len(c) < 4 \/ c[1] = 64 \/ c[2] = 64 THEN <<-1>>
    ELSE LET b1 == (c[1] * 4) + (c[2] \div 16)
             b2 == ((c[2] % 16) * 16) + (c[3] \div 4)
             b3 == ((c[3] % 4) * 64) + c[4]
         IN  IF c[3] = 64
             THEN (IF c[4] = 64 /\ Len(c) = 4 THEN <<b1>> ELSE <<-1>>)
             ELSE IF c[4] = 64
                  THEN (IF Len(c) = 4 THEN <<b1, b2>> ELSE <<-1>>)
             ELSE LET rest == B64Decode(SubSeq(c, 5, Len(c)))
                  IN  IF rest = <<-1>> THEN <<-1>> ELSE <<b1, b2, b3>> \o rest

\* b64ToBytes(b64)
b64ToBytes(b64) == B64Decode(b64)

\* parseInt(card.dataset.payload) of the decimal numeral the server rendered
parseInt(d) == ParseInt(d)

\* the texts e.message can be for an outcome of extractAndDecryptPng: the
\* messages of the two Errors the script throws itself, and for an exception
\* of the browser (RangeError of DataView, DataError and OperationError of
\* crypto.subtle, InvalidCharacterError of atob) a text the browser chooses,
\* which may be empty
Messages(err, payloadLen, img) ==
    IF err = "Image load failed" THEN {<<"Image load failed">>}
    ELSE IF err = "Data too long"
         THEN {<<"Data too long! Need ", payloadLen * 8, " bits, image only has ",
                 img.w * img.h * 3, " bits">>}
    ELSE {<<>>, <<err>>}

\* what decryptOne leaves in #content for the outcome r of
\* extractAndDecryptPng and the message msg of the exception caught: the
\* plaintext with content-loading removed, or "Decryption failed: " +
\* e.message in red with the class kept
Shown(r, msg) ==
    IF r.err = "none"
    THEN [kind |-> "plaintext", text |-> r.text, detail |-> <<>>,
          loading |-> FALSE, color |-> "default"]
    ELSE [kind |-> "failed", text |-> <<>>, detail |-> msg,
          loading |-> TRUE, color |-> "#ff4444"]

\* the body of the try in decryptOne: the outcome of extractAndDecryptPng on
\* the dataset c of the card, with the payload length parsed
decryptOne(c) ==
    LET k          == b64ToBytes(c.key)
        payloadLen == parseInt(c.payload)
    IN  IF k = <<-1>>
        THEN [err |-> "InvalidCharacterError", text |-> <<>>, payload |-> <<>>,
              ctLen |-> 0, ct |-> <<>>, decrypted |-> FALSE]
        ELSE extractAndDecryptPng(k, c.img, payloadLen)

\* the carrier of the page scenarios: 45 bytes
PageCarrier == MkImage(12, 10, "light")

\* what the registry row and the image file of the article hold, relative to
\* an article written by encrypt_and_embed
Scenarios == {"intact", "corrupt_image", "len_too_long", "len_short",
              "tampered", "bad_key"}

\* the dataset article_page renders into #article-card in scenario sc, for
\* the key k and the outcome w of encrypt_and_embed
CardOf(sc, k, w) ==
    [key     |-> B64Encode(IF sc = "bad_key" THEN SubSeq(k, 1, 5) ELSE k),
     payload |-> FormatInt(IF sc = "len_too_long"
                           THEN ((w.out.w * w.out.h * 3) \div 8) + 1
                           ELSE IF sc = "len_short" THEN 8 ELSE w.ret),
     img     |-> IF sc = "corrupt_image" THEN NoFile
                 ELSE IF sc = "tampered" THEN FlipChan(w.out, 8 * (NonceLen + 4))
                 ELSE w.out]

InitPage ==
    /\ pc = "page"
    /\ carrier = PageCarrier
    /\ plaintext \in Plaintexts
    /\ key \in Keys
    /\ \E nonce \in Nonces, sc \in Scenarios :
          /\ wr = encrypt_and_embed(plaintext, key, carrier, nonce, TRUE)
          /\ stored = wr.out
          /\ tamper = [kind |-> sc, at |-> 0]
          /\ card = CardOf(sc, key, wr)
    /\ content = Loading
    /\ onload = FALSE
    /\ timerFired = FALSE
    /\ loadFired = FALSE
    /\ runs = 0
    /\ job = "none"
    /\ data = <<>>
    /\ emb = NoEmb
    /\ dataLen = 0
    /\ ext = NoExt
    /\ rd = NoRd
    /\ NoBatch
    /\ NoWeb
    /\ NoBits

\* the callback of setTimeout(..., 1): window.onload = decryptOne
TimerFires ==
    /\ pc = "page"
    /\ ~timerFired
    /\ timerFired' = TRUE
    /\ onload' = TRUE
    /\ UNCHANGED <<pc, carrier, card, content, loadFired, runs, job>>
    /\ UNCHANGED <<codecVars, batchVars, webVars, bitVars>>

\* the load event of the window is dispatched: the handler in window.onload,
\* if there is one, is called, and decryptOne runs up to its first await
LoadEvent ==
    /\ pc = "page"
    /\ ~loadFired
    /\ loadFired' = TRUE
    /\ IF onload
       THEN /\ runs' = runs + 1
            /\ job' = "running"
       ELSE UNCHANGED <<runs, job>>
    /\ UNCHANGED <<pc, carrier, card, content, onload, timerFired>>
    /\ UNCHANGED <<codecVars, batchVars, webVars, bitVars>>

\* the awaits of decryptOne settle: out.textContent is the plaintext, or
\* the catch clause shows the failure
DecryptSettles ==
    /\ pc = "page"
    /\ job = "running"
    /\ \E r \in {decryptOne(card)} :
          /\ rd' = r
          /\ \E msg \in Messages(r.err, parseInt(card.payload), card.img) :
                content' = Shown(r, msg)
    /\ job' = "settled"
    /\ UNCHANGED <<pc, carrier, card, onload, timerFired, loadFired, runs>>
    /\ UNCHANGED <<data, emb, stored, dataLen, ext, plaintext, key, wr, tamper>>
    /\ UNCHANGED <<batchVars, webVars, bitVars>>

NextPage == TimerFires \/ LoadEvent \/ DecryptSettles

SpecPage == InitPage /\ [][NextPage]_vars

-----------------------------------------------------------------------------
(* The server: read_article_mapping, index_page and article_page of app.py  *)
(* Strings are sequences of code points.                                    *)

\* most lines after the header in KEY_INFO_FILE
MaxRows == 2

RECURSIVE SplitFrom(_, _, _, _)
\* the fields of s from position i on, cur being the field under way
SplitFrom(s, sep, i, cur) ==
    IF i > Len(s) THEN <<cur>>
    ELSE IF s[i] = sep THEN <<cur>> \o SplitFrom(s, sep, i + 1, <<>>)
    ELSE SplitFrom(s, sep, i + 1, Append(cur, s[i]))

\* str.split(sep)
Split(s, sep) == SplitFrom(s, sep, 1, <<>>)

\* the largest position of character c in s, 0 if there is none
LastIndexOf(s, c) ==
    LET at == {i \in 1 .. Len(s) : s[i] = c}
    IN  IF at = {} THEN 0 ELSE CHOOSE i \in at : \A j \in at : j <= i

\* os.path.splitext(p)[0]: p up to its last dot, when that dot comes after
\* the last "/" and after a character of the name that is not a dot
SplitextRoot(p) ==
    LET dot == LastIndexOf(p, 46)
        sep == LastIndexOf(p, 47)
    IN  IF dot > sep /\ (\E i \in (sep + 1) .. (dot - 1) : p[i] # 46)
        THEN SubSeq(p, 1, dot - 1)
        ELSE p

\* int(payload_len) accepts a decimal numeral with surrounding whitespace
\* (signs and underscores are not among the inputs tried) and raises
\* ValueError otherwise
IntOk(d) ==
    /\ Strip(d) # <<>>
    /\ \A i \in 1 .. Len(Strip(d)) : Strip(d)[i] \in 48 .. 57

\* mp[k] = v
Put(mp, k, v) == [x \in (DOMAIN mp) \cup {k} |-> IF x = k THEN v ELSE mp[x]]

\* mp = {}
EmptyMap == [x \in {} |-> x]

RECURSIVE ReadRows(_, _, _)
\* the loop over lines[1:] from line i on
ReadRows(lines, i, mp) ==
    IF i > Len(lines) THEN [err |-> "none", mp |-> mp]
    ELSE LET line  == Strip(lines[i])
             parts == Split(line, 9)
         IN  IF line = <<>> THEN ReadRows(lines, i + 1, mp)
             ELSE IF Len(parts) # 4 THEN ReadRows(lines, i + 1, mp)
             ELSE IF ~IntOk(parts[4]) THEN [err |-> "ValueError", mp |-> EmptyMap]
             ELSE LET article_key == SplitextRoot(parts[1])
                  IN  ReadRows(lines, i + 1,
                               Put(mp, article_key,
                                   [id          |-> article_key,
                                    img_path    |-> parts[2],
                                    aes_key_b64 |-> parts[3],
                                    payload_len |-> ParseInt(Strip(parts[4]))]))

\* read_article_mapping(mapping_file) on the lines of the file
read_article_mapping(lines) ==
    IF lines = <<>> THEN [err |-> "RuntimeError", mp |-> EmptyMap]
    ELSE ReadRows(lines, 2, EmptyMap)

\* re.sub(r"[^a-zA-Z0-9_\-]", "", s)
IsSafe(c) == c \in (48 .. 57) \cup (65 .. 90) \cup (97 .. 122) \cup {95, 45}
safe_title(t) == SelectSeq(t, IsSafe)

RECURSIVE StrLess(_, _)
\* a < b for two str
StrLess(a, b) ==
    IF b = <<>> THEN FALSE
    ELSE IF a = <<>> THEN TRUE
    ELSE IF a[1] # b[1] THEN a[1] < b[1]
    ELSE StrLess(Tail(a), Tail(b))

RECURSIVE Sorted(_)
\* sorted(keys)
Sorted(S) ==
    IF S = {} THEN <<>>
    ELSE LET m == CHOOSE x \in S : \A y \in S \ {x} : StrLess(x, y)
         IN  <<m>> \o Sorted(S \ {m})

\* index_page(): one link per id, or the 500 of an exception
index_page(lines) ==
    LET r == read_article_mapping(lines)
    IN  IF r.err # "none"
        THEN [status |-> 500, page |-> "error", links |-> <<>>, art |-> <<>>]
        ELSE LET ids == Sorted(DOMAIN r.mp)
             IN  [status |-> 200, page |-> "index",
                  links  |-> [n \in 1 .. Len(ids) |->
                                 [id |-> ids[n], href |-> safe_title(ids[n])]],
                  art    |-> <<>>]

\* article_page(article_id)
article_page(lines, article_id) ==
    LET id == safe_title(article_id)
        r  == read_article_mapping(lines)
    IN  IF r.err # "none"
        THEN [status |-> 500, page |-> "error", links |-> <<>>, art |-> <<>>]
        ELSE IF id \notin DOMAIN r.mp
        THEN [status |-> 404, page |-> "not_found", links |-> <<>>, art |-> <<>>]
        ELSE [status |-> 200, page |-> "article", links |-> <<>>, art |-> <<r.mp[id]>>]

\* the routes "/" and "/<article_id>" for the path after the first "/"
Route(lines, path) ==
    IF path = <<>> THEN index_page(lines) ELSE article_page(lines, path)

\* a line of the file: fields joined by tabs, and the newline
Row(fields) ==
    LET RECURSIVE Join(_)
        Join(f) == IF Len(f) = 1 THEN f[1] ELSE f[1] \o <<9>> \o Join(Tail(f))
    IN  Join(fields) \o <<10>>

\* the rows tried: "a.txt", "ab.txt", "a b.txt" and "a.png" well formed,
\* three fields, five fields, a blank line, a trailing tab, a length that
\* is no numeral
Rows ==
    {Row(<<<<97, 46, 116, 120, 116>>, <<112, 49>>, <<75, 49>>, <<51, 52>>>>),
     Row(<<<<97, 98, 46, 116, 120, 116>>, <<112, 50>>, <<75, 50>>, <<52, 48>>>>),
     Row(<<<<97, 32, 98, 46, 116, 120, 116>>, <<112, 51>>, <<75, 51>>, <<51, 52>>>>),
     Row(<<<<97, 46, 112, 110, 103>>, <<112, 52>>, <<75, 52>>, <<51, 52>>>>),
     Row(<<<<99>>, <<112, 53>>, <<75, 53>>>>),
     Row(<<<<99>>, <<112, 53>>, <<75, 53>>, <<49>>, <<120>>>>),
     Row(<<<<>>>>),
     Row(<<<<100, 46, 116, 120, 116>>, <<112, 54>>, <<75, 54>>, <<51, 52>>, <<>>>>),
     Row(<<<<101, 46, 116, 120, 116>>, <<112, 55>>, <<75, 55>>, <<120>>>>)}

\* the header line as the batch tool writes it, shortened to its tabs
HeaderLine == Row(<<<<78>>, <<80>>, <<75>>, <<76>>>>)

\* the files tried: empty, or the header and up to MaxRows rows
Registries ==
    {<<>>} \cup
    UNION {{<<HeaderLine>> \o rows : rows \in [1 .. n -> Rows]} : n \in 0 .. MaxRows}

InitWeb ==
    /\ pc = "web_start"
    /\ registry \in Registries
    /\ req = <<>>
    /\ resp = NoResp
    /\ carrier = NoFile
    /\ data = <<>>
    /\ emb = NoEmb
    /\ stored = NoFile
    /\ dataLen = 0
    /\ ext = NoExt
    /\ plaintext = <<>>
    /\ key = <<>>
    /\ wr = NoWr
    /\ tamper = NoTamper
    /\ rd = NoRd
    /\ NoBatch
    /\ NoPage
    /\ NoBits

\* GET /
IndexPage ==
    /\ pc \in {"web_start", "web_article"}
    /\ req' = [path |-> <<>>, id |-> <<>>]
    /\ resp' = Route(registry, <<>>)
    /\ pc' = "web_index"
    /\ UNCHANGED <<carrier, registry>>
    /\ UNCHANGED <<codecVars, batchVars, pageVars, bitVars>>

\* the visitor follows a link of the index page
FollowLink ==
    /\ pc = "web_index"
    /\ \E n \in 1 .. Len(resp.links) :
          /\ req' = [path |-> resp.links[n].href, id |-> resp.links[n].id]
          /\ resp' = Route(registry, resp.links[n].href)
    /\ pc' = "web_article"
    /\ UNCHANGED <<carrier, registry>>
    /\ UNCHANGED <<codecVars, batchVars, pageVars, bitVars>>

NextWeb == IndexPage \/ FollowLink

SpecWeb == InitWeb /\ [][NextWeb]_vars

-----------------------------------------------------------------------------
(* The bit planner on its own: bytes_to_lsb_bits and lsbBitsToBytes         *)

\* longest bit list of which every value is tried
MaxBitLen == 9

\* bit k of three fixed patterns: 1010..., 0110110..., 0001000100...
PatBit(p, k) ==
    IF p = 1 THEN k % 2
    ELSE IF p = 2 THEN (IF k % 3 = 1 THEN 0 ELSE 1)
    ELSE (IF k % 4 = 0 THEN 1 ELSE 0)

\* the bit lists handed to lsbBitsToBytes: every list of up to MaxBitLen
\* bits, and the patterns at every length up to 8*MaxDataLen + 7
BitLists ==
    SeqsUpTo({0, 1}, MaxBitLen) \cup
    {AsSeq([k \in 1 .. n |-> PatBit(p, k)], n) :
        n \in 0 .. ((8 * MaxDataLen) + 7), p \in 1 .. 3}

InitBits ==
    /\ \/ /\ pc = "bits_bytes"
          /\ data \in SeqsUpTo(SampleBytes, MaxDataLen)
          /\ bitList = <<>>
       \/ /\ pc = "bits_given"
          /\ data = <<>>
          /\ bitList \in BitLists
    /\ joined = <<>>
    /\ carrier = NoFile
    /\ emb = NoEmb
    /\ stored = NoFile
    /\ dataLen = 0
    /\ ext = NoExt
    /\ plaintext = <<>>
    /\ key = <<>>
    /\ wr = NoWr
    /\ tamper = NoTamper
    /\ rd = NoRd
    /\ NoBatch
    /\ NoPage
    /\ NoWeb

\* bits = bytes_to_lsb_bits(data)
ToBits ==
    /\ pc = "bits_bytes"
    /\ bitList' = bytes_to_lsb_bits(data)
    /\ pc' = "bits_planned"
    /\ UNCHANGED <<carrier, joined>>
    /\ UNCHANGED <<codecVars, batchVars, pageVars, webVars>>

\* lsbBitsToBytes(bits), on the bits planned or on the bits given
FromBits ==
    /\ pc \in {"bits_planned", "bits_given"}
    /\ joined' = lsbBitsToBytes(bitList)
    /\ pc' = IF pc = "bits_planned" THEN "bits_round" ELSE "bits_joined"
    /\ UNCHANGED <<carrier, bitList>>
    /\ UNCHANGED <<codecVars, batchVars, pageVars, webVars>>

NextBits == ToBits \/ FromBits

SpecBits == InitBits /\ [][NextBits]_vars

-----------------------------------------------------------------------------
(* Claims about the LSB embedder and extractor, checked under SpecLsb *)

Capacity(img) == img.w * img.h * 3

\* the channel the addressing scheme assigns to bit k: channel k mod 3 of
\* the pixel with raster index floor(k/3)
ChanAt(img, k) ==
    LET i == k \div 3
    IN  img.px[i % img.w][i \div img.w][(k % 3) + 1]

\* bit k of a byte string, most significant bit of each byte first
EnvelopeBit(d, k) == (d[(k \div 8) + 1] \div Pow2(7 - (k % 8))) % 2

Embedded == pc \in {"lsb_embedded", "lsb_extracted"} /\ emb.err = "none"

\* C2: embed_data_in_png changes only the least-significant bit of the first
\* 8*len(data) channels in traversal order: bits 1..7 of every channel equal
\* the source image's, and every channel at traversal index >= 8*len(data)
\* is identical to the source (the image keeps its dimensions).
C2_OnlyLsbOfAddressedChannels ==
    Embedded =>
        /\ stored.w = carrier.w /\ stored.h = carrier.h
        /\ \A k \in 0 .. (Capacity(carrier) - 1) :
              /\ ChanAt(stored, k) \div 2 = ChanAt(carrier, k) \div 2
              /\ k >= 8 * Len(data) => ChanAt(stored, k) = ChanAt(carrier, k)

\* a last pixel filled partially, later pixels, and an LSB that did change
C2_Witness ==
    /\ Embedded
    /\ (8 * Len(data)) % 3 # 0
    /\ Capacity(carrier) >= (8 * Len(data)) + 3
    /\ \E k \in 0 .. ((8 * Len(data)) - 1) : ChanAt(stored, k) # ChanAt(carrier, k)

\* C3: for a carrier of capacity N = w*h*3 bits, embedding up to exactly N
\* bits succeeds and sets every addressed channel LSB to the payload bit;
\* embedding more than N bits fails with the capacity error (ValueError) and
\* leaves no encoded output image.
C3_CapacityBoundary ==
    pc \in {"lsb_embedded", "lsb_extracted"} =>
        /\ 8 * Len(data) <= Capacity(carrier) =>
              /\ emb.err = "none"
              /\ stored.exists
              /\ \A k \in 0 .. ((8 * Len(data)) - 1) :
                    ChanAt(stored, k) % 2 = EnvelopeBit(data, k)
        /\ 8 * Len(data) > Capacity(carrier) =>
              /\ emb.err = "ValueError"
              /\ ~emb.out.exists
              /\ ~stored.exists

\* a payload of exactly N bits went in
C3_Witness ==
    /\ Embedded
    /\ Len(data) > 0
    /\ 8 * Len(data) = Capacity(carrier)
    /\ \E k \in 0 .. (Capacity(carrier) - 1) : ChanAt(stored, k) # ChanAt(carrier, k)

\* a payload of N+1 bits was refused
C3_WitnessOverflow ==
    /\ pc = "lsb_embedded"
    /\ 8 * Len(data) = Capacity(carrier) + 1
    /\ emb.err = "ValueError"

\* C4: for every k < 8*len(data), bit k of the data (MSB first) is written
\* to channel k mod 3 of the pixel in row floor(k/3) div w, column
\* floor(k/3) mod w; extractDataFromPng reads its k-th bit from exactly that
\* channel of that pixel, so it returns the first dataLen bytes of the data.
C4_SameAddressing ==
    (pc = "lsb_extracted" /\ emb.err = "none" /\ ext.err = "none") =>
        /\ \A k \in 0 .. ((8 * Len(data)) - 1) :
              ChanAt(stored, k) % 2 = EnvelopeBit(data, k)
        /\ Len(ExtractOffsets(stored, dataLen)) = 8 * dataLen
        /\ \A k \in 0 .. ((8 * dataLen) - 1) :
              LET row == (k \div 3) \div stored.w
                  col == (k \div 3) % stored.w
              IN  ExtractOffsets(stored, dataLen)[k + 1]
                      = (((row * stored.w) + col) * 4) + (k % 3)
        /\ dataLen <= Len(data) => ext.bytes = SubSeq(data, 1, dataLen)

\* several rows and columns, and a byte whose bit order matters, read back
C4_Witness ==
    /\ pc = "lsb_extracted" /\ emb.err = "none" /\ ext.err = "none"
    /\ carrier.w >= 2 /\ carrier.h >= 2
    /\ dataLen = Len(data) /\ dataLen >= 2
    /\ 8 * dataLen > 3 * carrier.w
    /\ \E i \in 1 .. Len(data) : data[i] = 178

-----------------------------------------------------------------------------
(* Claims about the codec, checked under Spec *)

ReadBack == pc = "read"

\* C1: for every plaintext P and valid key K, when encrypt_and_embed(P, K,
\* carrier) succeeds and returns L, extractAndDecryptPng(K, encoded carrier,
\* L) on the untouched image succeeds and returns P exactly.
C1_RoundTrip ==
    (ReadBack /\ tamper.kind = "none") => (rd.err = "none" /\ rd.text = plaintext)

\* the round trip of the plaintexts that do not begin with U+FEFF
C1_RoundTripWithoutBOM ==
    (ReadBack /\ tamper.kind = "none" /\ (plaintext = <<>> \/ Head(plaintext) # 65279))
        => (rd.err = "none" /\ rd.text = plaintext)

\* the round trip of the plaintexts that begin with U+FEFF loses exactly it
C1_RoundTripDropsBOM ==
    (ReadBack /\ tamper.kind = "none" /\ plaintext # <<>> /\ Head(plaintext) = 65279)
        => (rd.err = "none" /\ rd.text = Tail(plaintext))

\* C5: a carrier that agrees with the encoded one on the first 8*dataLen
\* channel LSBs and differs arbitrarily afterwards yields the same extracted
\* bytes and the same decode result as the encoded one.
C5_TrailingBitsIgnored ==
    (ReadBack /\ tamper.kind \in Garbage) =>
        /\ rd.payload = wr.payload
        /\ rd = extractAndDecryptPng(key, wr.out, wr.ret)

\* the altered image does differ in an LSB after the envelope
C5_Witness ==
    /\ ReadBack /\ tamper.kind \in Garbage
    /\ rd.err = "none"
    /\ \E k \in (8 * wr.ret) .. (Capacity(stored) - 1) :
          ChanAt(stored, k) % 2 # ChanAt(wr.out, k) % 2

\* C6: whenever the extracted envelope is shorter than 16 bytes or its
\* big-endian length field differs from (declared total length - 16), the
\* read path fails with a malformed-envelope error and hands no ciphertext
\* to decrypt.
C6_UnframeValidates ==
    (ReadBack /\ rd.err \notin {"Image load failed", "Data too long"}) =>
        ((Len(rd.payload) < 16 \/ rd.ctLen # wr.ret - 16) =>
            (rd.err = "MalformedEnvelope" /\ ~rd.decrypted))

\* C10: after the inversion of any single channel LSB holding a bit of the
\* ciphertext-with-tag (envelope bit index >= 128), the read path fails in
\* decrypt with the authentication error and yields no plaintext.
C10_TamperDetected ==
    (ReadBack /\ tamper.kind = "flip" /\ tamper.at >= 128) =>
        (rd.decrypted /\ rd.err = "OperationError" /\ rd.text = <<>>)

\* a bit of the ciphertext body (not of the tag) was inverted and read back
C10_Witness ==
    /\ ReadBack /\ tamper.kind = "flip"
    /\ tamper.at >= 128
    /\ tamper.at < 8 * (wr.ret - TagLen)
    /\ rd.payload # wr.payload

-----------------------------------------------------------------------------
(* Claims about the batch write path, checked under SpecBatch *)

\* the mapping records written so far (the lines after the header)
Records == {mapping[r] : r \in 2 .. Len(mapping)}

\* the call the batch made for item i
CallsOf(i) == {c \in 1 .. Len(calls) : calls[c].item = i}

\* C7: every payload built by encrypt_and_embed is nonce (12 bytes) ||
\* big-endian 4-byte length || ciphertext-with-tag with nothing else, the
\* length field is the byte length of ciphertext-with-tag (the UTF-8 length
\* of the plaintext plus the tag), and the value returned and written to
\* the mapping record as PAYLOAD_LEN is 16 + that length field.
C7_EnvelopeLayout ==
    /\ \A c \in 1 .. Len(calls) :
          LET p     == calls[c].payload
              field == GetUint32BE(SubSeq(p, 13, 16))
          IN  p # <<>> =>
                /\ Len(calls[c].nonce) = 12
                /\ SubSeq(p, 1, 12) = calls[c].nonce
                /\ field = Len(calls[c].ct)
                /\ field = Len(Utf8Encode(calls[c].text)) + TagLen
                /\ SubSeq(p, 17, Len(p)) = calls[c].ct
                /\ Len(p) = 16 + field
                /\ calls[c].err = "none" => calls[c].ret = 16 + field
    /\ \A rec \in Records :
          \E c \in CallsOf(rec[1].stem) :
              /\ calls[c].err = "none"
              /\ ParseInt(rec[4]) = 16 + GetUint32BE(SubSeq(calls[c].payload, 13, 16))

\* a record was written for a text whose UTF-8 length differs from its
\* length in characters
C7_Witness ==
    \E rec \in Records :
        \E c \in CallsOf(rec[1].stem) :
            /\ calls[c].text = <<233>>
            /\ ParseInt(rec[4]) = 34

\* C8: a failure while processing one item never aborts the batch: the
\* remaining items are still processed and reported, and a mapping record
\* exists only for an item whose embedding succeeded.
C8_FailureIsolation ==
    /\ pc # "batch_aborted"
    /\ pc = "batch_done" =>
          \A i \in 1 .. Len(files) : \E m \in 1 .. Len(console) : console[m].item = i
    /\ \A rec \in Records :
          \E c \in CallsOf(rec[1].stem) : calls[c].err = "none"

\* the part of C8 about records: one is written only after the item's
\* embedding succeeded, and the items that failed inside the try are
\* reported as failed
C8_RecordOnlyAfterEmbed ==
    /\ \A rec \in Records :
          \E c \in CallsOf(rec[1].stem) : calls[c].err = "none"
    /\ \A c \in 1 .. Len(calls) :
          calls[c].err # "none" =>
              /\ [kind |-> "Failed", item |-> calls[c].item] \in
                    {console[m] : m \in 1 .. Len(console)}
              /\ \A rec \in Records : rec[1].stem # calls[c].item

\* the part of C8 about earlier records: no step removes or alters a line
\* of the mapping file
C8_RecordsKept ==
    [][\A r \in 1 .. Len(mapping) : Len(mapping') >= r /\ mapping'[r] = mapping[r]]_vars

\* C9: every generated key is passed to exactly one encrypt call and
\* appears in at most one mapping record: no two calls share a key, hence
\* no (key, nonce) pair, and every record's key is that of one call.
C9_KeySingleUse ==
    /\ \A c, d \in 1 .. Len(calls) :
          c # d => /\ calls[c].key # calls[d].key
                   /\ <<calls[c].key, calls[c].nonce>> # <<calls[d].key, calls[d].nonce>>
    /\ \A r, q \in 2 .. Len(mapping) : r # q => mapping[r][3] # mapping[q][3]
    /\ \A rec \in Records :
          Cardinality({c \in 1 .. Len(calls) : B64Encode(calls[c].key) = rec[3]}) = 1

\* two items were encrypted under the same nonce value and both recorded
C9_Witness ==
    /\ Len(calls) >= 2
    /\ Len(mapping) >= 3
    /\ calls[1].nonce = calls[2].nonce

-----------------------------------------------------------------------------
(* Claims about the article page, checked under SpecPage *)

Settled == pc = "page" /\ job = "settled"

\* C11: whatever stage of the read path fails (image load, capacity check,
\* envelope parsing, key import, authentication), #content shows the same
\* "decryption failed" result with no detail that tells the cause, and never
\* a plaintext.
C11_OpaqueFailure ==
    (Settled /\ rd.err # "none") =>
        /\ content.kind = "failed"
        /\ content.text = <<>>
        /\ content.detail = <<>>

\* the part of C11 about the plaintext: a failed read shows no text of the
\* article, and only a successful read shows one
C11_NoPartialPlaintext ==
    Settled =>
        /\ rd.err # "none" => (content.kind = "failed" /\ content.text = <<>>)
        /\ rd.err = "none" => (content.kind = "plaintext" /\ content.text = rd.text)

\* nothing of the page is left to happen: the timer callback and the load
\* event are past and no call of decryptOne is under way
PageQuiet == pc = "page" /\ timerFired /\ loadFired /\ job # "running"

\* C14: on every page view, whichever of the timer callback and the load
\* event comes first, decryptOne is executed exactly once, never again, and
\* #content ends with the plaintext or a failure message instead of
\* "(loading...)".
C14_DecodeRunsOnce ==
    /\ pc = "page" => runs <= 1
    /\ PageQuiet => (runs = 1 /\ job = "settled" /\ content.kind # "loading")

\* the part of C14 that holds: decryptOne is never entered twice, and a call
\* that was made ends with the plaintext or a failure message shown
C14_NeverRetried ==
    pc = "page" =>
        /\ runs <= 1
        /\ job = "settled" => content.kind \in {"plaintext", "failed"}
        /\ (onload /\ loadFired /\ runs = 0) => PageQuiet

-----------------------------------------------------------------------------
(* Claims about the server, checked under SpecWeb *)

\* a line without its line terminator, and its tab-separated fields
LineContent(l) == IF l # <<>> /\ l[Len(l)] = 10 THEN SubSeq(l, 1, Len(l) - 1) ELSE l
RawFields(l) == Split(LineContent(l), 9)

\* the lines after the header
RowsOf(lines) == {lines[i] : i \in 2 .. Len(lines)}

\* a row of four fields whose last is a numeral
WellFormed(l) == Len(RawFields(l)) = 4 /\ IntOk(RawFields(l)[4])

\* the ids of the links of the index page
LinkIds == {resp.links[n].id : n \in 1 .. Len(resp.links)}

\* C12: read_article_mapping skips the header line, and skips without
\* raising every later line whose tab-separated field count is not 4, so
\* that in a file whose other rows are well formed the page is served and
\* lists exactly the well-formed rows.
C12_ParsingTolerant ==
    (/\ pc = "web_index"
     /\ registry # <<>>
     /\ \A l \in RowsOf(registry) : Len(RawFields(l)) # 4 \/ WellFormed(l)) =>
        /\ resp.status = 200
        /\ LinkIds = {SplitextRoot(RawFields(l)[1]) :
                         l \in {r \in RowsOf(registry) : WellFormed(r)}}

\* the same with the fields counted as the code counts them, after strip()
\* removed the whitespace at both ends of the line, tabs included
C12_SkipsByStrippedCount ==
    (/\ pc = "web_index"
     /\ registry # <<>>
     /\ \A l \in RowsOf(registry) :
           Len(RawFields(l)) = 4 => IntOk(RawFields(l)[4])) =>
        /\ resp.status = 200
        /\ LinkIds = {SplitextRoot(Split(Strip(l), 9)[1]) :
                         l \in {r \in RowsOf(registry) :
                                   Strip(r) # <<>> /\ Len(Split(Strip(r), 9)) = 4}}

\* C15: the link index_page renders for a record is answered by
\* article_page with the page of that same record, never with 404 and
\* never with another record's key, image or payload length; and every row
\* the registry accepts has a link that leads to its own record, so rows
\* whose ids differ only in extension or in characters removed by
\* safe_title do not shadow one another.
C15_LinksResolve ==
    /\ pc = "web_article" =>
          /\ resp.status = 200
          /\ resp.art = <<read_article_mapping(registry).mp[req.id]>>
    /\ (pc = "web_index" /\ resp.status = 200) =>
          \A l \in RowsOf(registry) :
              (Strip(l) # <<>> /\ Len(Split(Strip(l), 9)) = 4) =>
                  \E n \in 1 .. Len(resp.links) :
                      LET a == Route(registry, resp.links[n].href)
                          f == Split(Strip(l), 9)
                      IN  /\ a.status = 200
                          /\ a.page = "article"
                          /\ a.art[1].img_path = f[2]
                          /\ a.art[1].aes_key_b64 = f[3]

\* the links of the ids that safe_title leaves unchanged do resolve to their
\* record
C15_SafeIdsResolve ==
    (pc = "web_article" /\ safe_title(req.id) = req.id) =>
        /\ resp.status = 200
        /\ resp.art = <<read_article_mapping(registry).mp[req.id]>>

-----------------------------------------------------------------------------
(* Claims about the bit planner, checked under SpecBits *)

\* the value of the 8 bits of b from position s on, the first bit highest
ByteOfBits(b, s) ==
    (128 * b[s]) + (64 * b[s + 1]) + (32 * b[s + 2]) + (16 * b[s + 3])
        + (8 * b[s + 4]) + (4 * b[s + 5]) + (2 * b[s + 6]) + b[s + 7]

\* C13: for every byte sequence b, lsbBitsToBytes(bytes_to_lsb_bits(b)) = b
\* and planning the bytes read back gives the same bits again; for every
\* bit list, lsbBitsToBytes returns floor(len/8) bytes, byte i made of bits
\* 8i .. 8i+7 with the first bit highest, and the trailing partial byte is
\* dropped.
C13_BitPlannerRoundTrip ==
    /\ pc = "bits_round" =>
          /\ joined = data
          /\ bytes_to_lsb_bits(joined) = bitList
    /\ pc \in {"bits_round", "bits_joined"} =>
          /\ Len(joined) = Len(bitList) \div 8
          /\ \A i \in 1 .. Len(joined) :
                joined[i] = ByteOfBits(bitList, (8 * (i - 1)) + 1)

\* a list of more than two bytes with a partial byte at its end was joined
\* into bytes whose bit order matters
C13_Witness ==
    /\ pc = "bits_joined"
    /\ Len(bitList) % 8 # 0
    /\ Len(joined) >= 2
    /\ joined[1] = 170 /\ joined[2] = 170

\* a byte sequence with a byte whose bit order matters went round
C13_WitnessRound ==
    /\ pc = "bits_round"
    /\ Len(data) >= 2
    /\ \E i \in 1 .. Len(data) : data[i] = 178

=============================================================================
